---- MODULE Spec2Model ----
(***************************************************************************)
(* FinanceMCP demo pipeline: keyword filter, exact and near duplicate      *)
(* reduction, and the two-source aggregation of searchFinanceNews.         *)
(*                                                                         *)
(* Text is modelled as a sequence of one-character strings, so that        *)
(* concatenation, case folding, trimming, splitting and substring search   *)
(* are computed the way the JavaScript string methods compute them.        *)
(* Non-ASCII literals of the source are transliterated ("Baidu" stands for *)
(* the four-character Chinese source name of the scrape adapter).          *)
(***************************************************************************)
EXTENDS Integers, Sequences, FiniteSets, TLC

VARIABLES
    pc,          \* position of searchFinanceNews (3-finance-news-complete.ts:238-275)
    query,       \* its argument
    keywords,    \* const keywords (line 239)
    token,       \* TUSHARE_TOKEN (line 19), as text
    upstream,    \* how each upstream server behaves during this call
    adapter,     \* per source: position of the async adapter, its timer, its promise
    settleOrder, \* the order in which the adapter promises settled
    news,        \* const news (line 250), the accumulator
    uniqueNews,  \* const uniqueNews (line 266)
    result,      \* what the call returned
    fn,          \* pure function under test (function-level specifications)
    args,        \* its arguments
    ret          \* its return value

vars == <<pc, query, keywords, token, upstream, adapter, settleOrder,
          news, uniqueNews, result, fn, args, ret>>

mainVars == <<pc, query, keywords, token, upstream, adapter, settleOrder,
              news, uniqueNews, result>>

fnVars == <<fn, args, ret>>

----------------------------------------------------------------------------
(* Bounds of the model *)

MaxQueryLen == 3
MaxTextLen == 2
MaxIdentityItems == 3
MaxContentItems == 3
MaxRows == 2
MaxBlocks == 2
BulkRows == 22
BulkBlocks == 16
FewBlocks == 6
MaxSimLen == 2

----------------------------------------------------------------------------
(* Sequences and text *)

Range(s) == {s[i] : i \in 1..Len(s)}

SeqsUpTo(S, n) == UNION {[1..k -> S] : k \in 0..n}

Min(a, b) == IF a < b THEN a ELSE b

\* Array.prototype.slice(0, n) for n >= 0
Slice(s, n) == SubSeq(s, 1, Min(n, Len(s)))

RECURSIVE Flatten(_)
Flatten(ss) == IF ss = <<>> THEN <<>> ELSE Head(ss) \o Flatten(Tail(ss))

\* Characters matched by \s and removed by String.prototype.trim (space,
\* tab, line feed; the remaining whitespace characters behave like tab)
WhiteSpace == {" ", "\t", "\n"}

\* String.prototype.toLowerCase on one character
LowerChar(c) ==
    CASE c = "A" -> "a"
      [] c = "B" -> "b"
      [] c = "T" -> "t"
      [] OTHER -> c

toLowerCase(s) == [i \in 1..Len(s) |-> LowerChar(s[i])]

RECURSIVE trimStart(_)
trimStart(s) ==
    IF s # <<>> /\ Head(s) \in WhiteSpace THEN trimStart(Tail(s)) ELSE s

RECURSIVE trimEnd(_)
trimEnd(s) ==
    IF s # <<>> /\ s[Len(s)] \in WhiteSpace
    THEN trimEnd(SubSeq(s, 1, Len(s) - 1))
    ELSE s

\* String.prototype.trim
trim(s) == trimEnd(trimStart(s))

\* String.prototype.includes
includes(s, sub) ==
    \E i \in 0..(Len(s) - Len(sub)) : SubSeq(s, i + 1, i + Len(sub)) = sub

RECURSIVE SplitRec(_, _, _, _)
SplitRec(s, sep, cur, acc) ==
    IF s = <<>> THEN Append(acc, cur)
    ELSE IF Head(s) = sep
         THEN SplitRec(Tail(s), sep, <<>>, Append(acc, cur))
         ELSE SplitRec(Tail(s), sep, Append(cur, Head(s)), acc)

\* String.prototype.split(' '): "" gives [""], "a  b" gives ["a", "", "b"]
split(s, sep) == SplitRec(s, sep, <<>>, <<>>)

RECURSIVE join(_, _)
\* Array.prototype.join(' ')
join(ss, sep) ==
    IF ss = <<>> THEN <<>>
    ELSE IF Len(ss) = 1 THEN ss[1]
    ELSE ss[1] \o <<sep>> \o join(Tail(ss), sep)

\* query.split(' ').filter(k => k.trim().length > 0)
ParseQuery(q) == SelectSeq(split(q, " "), LAMBDA k : Len(trim(k)) > 0)

----------------------------------------------------------------------------
(* Keyword relevance filter *)

\* containsKeywords(content, searchQuery)
containsKeywords(content, searchQuery) ==
    LET kws == ParseQuery(searchQuery)
        lowerContent == toLowerCase(content)
    IN \E i \in 1..Len(kws) : includes(lowerContent, toLowerCase(kws[i]))

----------------------------------------------------------------------------
(* Exact-duplicate reducer *)

\* uniqueNews.slice(0, 20)
MAX_RESULTS == 20

\* Faulty variant of IdentityKey: the key is the title alone
TitleOnlyKey(item) == item.title

\* const key = item.title + item.source
IdentityKey(item) == item.title \o item.source

RECURSIVE FilterToggle(_, _)
\* Faulty variant of FilterUnseen: dropping a duplicate also deletes its key
\* from seen, so every second repetition of a record is let through
FilterToggle(items, seen) ==
    IF items = <<>> THEN <<>>
    ELSE LET key == IdentityKey(Head(items))
         IN IF key \in seen
            THEN FilterToggle(Tail(items), seen \ {key})
            ELSE <<Head(items)>> \o FilterToggle(Tail(items), seen \cup {key})

RECURSIVE FilterUnseen(_, _)
FilterUnseen(items, seen) ==
    IF items = <<>> THEN <<>>
    ELSE LET key == IdentityKey(Head(items))
         IN IF key \in seen
            THEN FilterUnseen(Tail(items), seen)
            ELSE <<Head(items)>> \o FilterUnseen(Tail(items), seen \cup {key})

\* Faulty variant of removeDuplicates: the cap is applied before the reduction
DedupAfterCap(items) == FilterUnseen(Slice(items, MAX_RESULTS), {})

removeDuplicates(items) == FilterUnseen(items, {})

----------------------------------------------------------------------------
(* Near-duplicate reducer (1-tushare-hot-news.ts) *)

RECURSIVE StripTags(_)
\* .replace(/<[^>]+>/g, ''): a "<", one or more characters other than ">",
\* then ">"; scanning resumes after each match
StripTags(s) ==
    IF s = <<>> THEN <<>>
    ELSE IF Head(s) = "<"
              /\ \E j \in 3..Len(s) : s[j] = ">" /\ \A k \in 2..(j - 1) : s[k] # ">"
         THEN LET j == CHOOSE j \in 3..Len(s) :
                           s[j] = ">" /\ \A k \in 2..(j - 1) : s[k] # ">"
              IN StripTags(SubSeq(s, j + 1, Len(s)))
         ELSE <<Head(s)>> \o StripTags(Tail(s))

\* .replace(/[\s\u3000]+/g, '')
StripWhiteSpace(s) == SelectSeq(s, LAMBDA c : c \notin WhiteSpace)

normalizeText(text) == toLowerCase(StripWhiteSpace(StripTags(text)))

\* Faulty variant of toBigrams: the loop stops one position early
\* (i < s.length - 2), so the last bigram is never produced
toBigramsShort(text) ==
    LET s == normalizeText(text)
        grams == [i \in 1..(Len(s) - 2) |-> SubSeq(s, i, i + 1)]
    IN IF Len(grams) # 0 THEN grams
       ELSE IF s # <<>> THEN <<s>> ELSE <<>>

toBigrams(text) ==
    LET s == normalizeText(text)
        grams == [i \in 1..(Len(s) - 1) |-> SubSeq(s, i, i + 1)]
    IN IF Len(grams) # 0 THEN grams
       ELSE IF s # <<>> THEN <<s>> ELSE <<>>

\* Faulty variant of jaccard: without the first line, two empty bigram
\* lists fall through to union === 0 and score 0
jaccardNoEmptyCase(a, b) ==
    LET setA == Range(a)
        setB == Range(b)
        inter == Cardinality({g \in setA : g \in setB})
        union == Cardinality(setA) + Cardinality(setB) - inter
    IN IF union = 0 THEN [num |-> 0, den |-> 1]
       ELSE [num |-> inter, den |-> union]

\* Faulty variant of jaccard: the denominator is setA.size, the share of
\* the first text's bigrams found in the second
jaccardContainment(a, b) ==
    IF Len(a) = 0 /\ Len(b) = 0 THEN [num |-> 1, den |-> 1]
    ELSE LET setA == Range(a)
             setB == Range(b)
             inter == Cardinality({g \in setA : g \in setB})
             union == Cardinality(setA)
         IN IF union = 0 THEN [num |-> 0, den |-> 1]
            ELSE [num |-> inter, den |-> union]

\* The coefficient as the exact fraction num/den that the floating-point
\* division inter / union rounds; 1 is 1/1 and 0 is 0/1.
jaccard(a, b) ==
    IF Len(a) = 0 /\ Len(b) = 0 THEN [num |-> 1, den |-> 1]
    ELSE LET setA == Range(a)
             setB == Range(b)
             inter == Cardinality({g \in setA : g \in setB})
             union == Cardinality(setA) + Cardinality(setB) - inter
         IN IF union = 0 THEN [num |-> 0, den |-> 1]
            ELSE [num |-> inter, den |-> union]

\* Faulty variant of isSimilar: the comparison is reversed (sim <= threshold)
isSimilarReversed(a, b, threshold) ==
    LET sim == jaccard(toBigrams(a), toBigrams(b))
    IN sim.num * 100 <= threshold * sim.den

\* sim >= threshold, the threshold given in hundredths (80 is 0.8)
isSimilar(a, b, threshold) ==
    LET sim == jaccard(toBigrams(a), toBigrams(b))
    IN sim.num * 100 >= threshold * sim.den

\* `${item.title}\n${item.summary}`
ComparisonText(item) == item.title \o <<"\n">> \o item.summary

RECURSIVE DedupLoopLastOnly(_, _, _)
\* Faulty variant of DedupLoop: an item is compared with the last
\* representative only
DedupLoopLastOnly(items, representatives, threshold) ==
    IF items = <<>> THEN representatives
    ELSE LET item == Head(items)
             n == Len(representatives)
             dup == n > 0 /\ isSimilar(ComparisonText(item),
                                       ComparisonText(representatives[n]), threshold)
         IN DedupLoopLastOnly(Tail(items),
                              IF dup THEN representatives
                              ELSE Append(representatives, item),
                              threshold)

RECURSIVE DedupLoop(_, _, _)
DedupLoop(items, representatives, threshold) ==
    IF items = <<>> THEN representatives
    ELSE LET item == Head(items)
             dup == \E k \in 1..Len(representatives) :
                        isSimilar(ComparisonText(item),
                                  ComparisonText(representatives[k]), threshold)
         IN DedupLoop(Tail(items),
                      IF dup THEN representatives ELSE Append(representatives, item),
                      threshold)

\* threshold = 0.8 when the argument is omitted
DEFAULT_THRESHOLD == 80

\* Faulty variant of deduplicateByContent: the threshold argument is
\* ignored and 0.8 is always used
deduplicateByDefault(items, thresholdArg) ==
    [kind |-> "value", value |-> DedupLoop(items, <<>>, DEFAULT_THRESHOLD)]

deduplicateByContent(items, thresholdArg) ==
    LET threshold == IF thresholdArg.given THEN thresholdArg.v ELSE DEFAULT_THRESHOLD
    IN [kind |-> "value", value |-> DedupLoop(items, <<>>, threshold)]

----------------------------------------------------------------------------
(* Records and the source adapters' extraction (3-finance-news-complete.ts) *)

NewsItem(title, summary, url, source, publishTime, kws) ==
    [title |-> title, summary |-> summary, url |-> url, source |-> source,
     publishTime |-> publishTime, keywords |-> kws]

\* source: the scrape adapter's literal (transliterated) and the API adapter's
BAIDU_SOURCE == <<"B", "a", "i", "d", "u">>
TUSHARE_SOURCE == <<"T", "u", "s", "h", "a", "r", "e">>

\* the placeholder publish time of the scrape adapter (transliterated)
UNKNOWN_TIME == <<"?">>

\* An optional value: a regex match group, a cell of an API row
None == [some |-> FALSE, v |-> <<>>]
Some(t) == [some |-> TRUE, v |-> t]

RECURSIVE StripAnyTags(_)
\* .replace(/<[^>]*>/g, ''): like StripTags, but "<>" is a tag too
StripAnyTags(s) ==
    IF s = <<>> THEN <<>>
    ELSE IF Head(s) = "<" /\ \E j \in 2..Len(s) : s[j] = ">"
         THEN LET j == CHOOSE j \in 2..Len(s) :
                           s[j] = ">" /\ \A k \in 2..(j - 1) : s[k] # ">"
              IN StripAnyTags(SubSeq(s, j + 1, Len(s)))
         ELSE <<Head(s)>> \o StripAnyTags(Tail(s))

\* Faulty variant of KeywordsField: only the terms that occur in the text
MatchedKeywordsField(text, kws) ==
    SelectSeq(kws, LAMBDA k : includes(toLowerCase(text), toLowerCase(k)))

\* keywords: keywords (and, in the scrape adapter, the query split again):
\* the record's keywords field is the whole keyword list of the query
KeywordsField(text, kws) == kws

\* A block of the result page, as its three regex matches: titleMatch is
\* [some, href, text] (groups 1 and 2), summaryMatch and timeMatch carry the
\* captured text. The result is <<>> for null and <<item>> for an item.
extractNewsFromBaiduItem(block, searchQuery) ==
    IF block.titleMatch.some /\ block.titleMatch.href # <<>>
         /\ block.titleMatch.text # <<>>
    THEN LET url == block.titleMatch.href
             title == trim(StripAnyTags(block.titleMatch.text))
             summary == IF block.summaryMatch.some /\ block.summaryMatch.v # <<>>
                        THEN trim(StripAnyTags(block.summaryMatch.v))
                        ELSE title
             time == IF block.timeMatch.some THEN trim(block.timeMatch.v) ELSE <<>>
         IN IF title # <<>> /\ url # <<>>
                 /\ containsKeywords(title \o summary, searchQuery)
            THEN <<NewsItem(title, summary, url, BAIDU_SOURCE,
                            IF time # <<>> THEN time ELSE UNKNOWN_TIME,
                            KeywordsField(title \o summary,
                                          ParseQuery(searchQuery)))>>
            ELSE <<>>
    ELSE <<>>

\* newsItems.length < 15
BAIDU_LIMIT == 15

\* for (const blockHtml of blockMatches): newsItems after the first i blocks
BaiduLoop(blocks, searchQuery) ==
    LET extracted == [i \in 1..Len(blocks) |->
                        extractNewsFromBaiduItem(blocks[i], searchQuery)]
        newsItems[i \in 0..Len(blocks)] ==
            IF i = 0 THEN <<>>
            ELSE LET before == newsItems[i - 1]
                     newsItem == extracted[i]
                 IN IF /\ newsItem # <<>>
                       /\ Len(before) < BAIDU_LIMIT
                       /\ ~\E k \in 1..Len(before) : before[k].title = newsItem[1].title
                    THEN before \o newsItem
                    ELSE before
    IN newsItems[Len(blocks)]

\* html is modelled by its blockMatches (none when the sequence is empty)
parseBaiduNews(blocks, searchQuery) == BaiduLoop(blocks, searchQuery)

\* String(row[idx] ?? '').trim()
CellText(cell) == trim(IF cell.some THEN cell.v ELSE <<>>)

\* results.length >= 20
TUSHARE_LIMIT == 20

RECURSIVE TushareLoop(_, _, _)
\* for (const row of items): reading a cell of a row that is null throws;
\* the result says whether the loop threw and what results held then
TushareLoop(items, results, kws) ==
    IF items = <<>> THEN [threw |-> FALSE, results |-> results]
    ELSE LET row == Head(items)
         IN IF row.isNull THEN [threw |-> TRUE, results |-> results]
            ELSE LET title == CellText(row.title)
                     content == CellText(row.content)
                     datetime == CellText(row.datetime)
                     next == IF containsKeywords(title \o content, join(kws, " "))
                             THEN Append(results,
                                         NewsItem(title, content, <<>>, TUSHARE_SOURCE,
                                                  datetime,
                                                  KeywordsField(title \o content, kws)))
                             ELSE results
                 IN IF Len(next) >= TUSHARE_LIMIT
                    THEN [threw |-> FALSE, results |-> next]
                    ELSE TushareLoop(Tail(items), next, kws)

\* Faulty variant of CatchResult: the catch block returns what was collected so far
CatchPartial(partial) == partial

\* catch (error) { ...; return []; } of either adapter; partial is what the
\* adapter had collected when the error was thrown
CatchResult(partial) == <<>>

\* searchTushareNews from const data = await resp.json() on:
\* data is [code, items]
TushareFromData(data, kws) ==
    IF data.code # 0 THEN [failed |-> TRUE, value |-> CatchResult(<<>>)]
    ELSE LET loop == TushareLoop(data.items, <<>>, kws)
         IN IF loop.threw
            THEN [failed |-> TRUE, value |-> CatchResult(loop.results)]
            ELSE [failed |-> FALSE, value |-> loop.results]

\* searchBaiduNews from const html = await response.text() on
BaiduFromHtml(blocks, kws) ==
    [failed |-> FALSE, value |-> parseBaiduNews(blocks, join(kws, " "))]

----------------------------------------------------------------------------
(* What the environment may supply *)

\* Queries given to searchFinanceNews
MainQueries ==
    { <<>>, <<"a">>, <<"a", " ", "b">>, <<"\t", "a">> }

\* TUSHARE_TOKEN unset or set
Tokens == { <<>>, <<"k">> }

\* An upstream server during one call: it never answers; the connection
\* fails; it answers with an HTTP error status; it answers and delivers the
\* body; it answers and the body never completes; it answers and the body
\* read fails (connection reset, or a body that is not JSON)
UpstreamModes == {"noAnswer", "netError", "httpError", "ok", "stallBody", "bodyError"}

\* "a" followed by i times "b": distinct texts that contain the keyword a
BulkText(i) == <<"a">> \o [j \in 1..i |-> "b"]

Row(title, content) ==
    [isNull |-> FALSE, title |-> title, content |-> content, datetime |-> Some(<<"t">>)]

NullRow == [isNull |-> TRUE, title |-> None, content |-> None, datetime |-> None]

TushareRows ==
    { Row(t, c) : t \in {None, Some(<<" ">>), Some(<<"a">>), Some(<<"b">>)},
                  c \in {Some(<<>>), Some(<<"a">>)} }
    \cup {NullRow}

BulkItems == [i \in 1..BulkRows |-> Row(Some(BulkText(i)), Some(<<"a">>))]

\* The JSON bodies the API may deliver
TushareBodies ==
    { [code |-> 0, items |-> items] : items \in SeqsUpTo(TushareRows, MaxRows) }
    \cup { [code |-> 0, items |-> BulkItems],
           [code |-> 0, items |-> <<BulkItems[1]>> \o BulkItems],
           [code |-> 40001, items |-> <<>>] }

Block(href, text, summary, time) ==
    [titleMatch |-> [some |-> TRUE, href |-> href, text |-> text],
     summaryMatch |-> summary, timeMatch |-> time]

NoTitleBlock ==
    [titleMatch |-> [some |-> FALSE, href |-> <<>>, text |-> <<>>],
     summaryMatch |-> Some(<<"a">>), timeMatch |-> None]

BaiduBlocks ==
    { NoTitleBlock,
      Block(<<"u">>, <<"a">>, None, None),
      Block(<<"u">>, <<"b">>, Some(<<"A">>), Some(<<"t">>)),
      Block(<<"u">>, <<" ">>, Some(<<"a">>), None),
      Block(<<>>, <<"a">>, None, None),
      Block(<<"v">>, <<"<", ">", "a">>, None, None) }

BulkBlockSeq == [i \in 1..BulkBlocks |-> Block(<<"u">>, BulkText(i), None, None)]

\* The result pages the search site may deliver, as their blocks
BaiduBodies ==
    SeqsUpTo(BaiduBlocks, MaxBlocks) \cup {BulkBlockSeq, Slice(BulkBlockSeq, FewBlocks)}

----------------------------------------------------------------------------
(* searchFinanceNews and its two adapters as a state machine *)

\* const searchPromises = [searchBaiduNews(keywords), searchTushareNews(keywords)]
BAIDU == 1
TUSHARE == 2
Sources == {BAIDU, TUSHARE}

IdleAdapter ==
    [st |-> "idle", timer |-> "none", status |-> "pending", value |-> <<>>,
     failed |-> FALSE]

\* up to the first await: the timer is armed and the request is in flight
Fetching ==
    [st |-> "fetching", timer |-> "armed", status |-> "pending", value |-> <<>>,
     failed |-> FALSE]

\* the async function returned: its promise is fulfilled with value
Settle(a, outcome) ==
    [a EXCEPT !.st = "settled", !.status = "fulfilled", !.value = outcome.value,
              !.failed = outcome.failed]

\* the catch block of an adapter
Caught(partial) == [failed |-> TRUE, value |-> CatchResult(partial)]

NoCall == [kind |-> "none"]

FnIdle == fn = "none" /\ args = <<>> /\ ret = NoCall

Init ==
    /\ pc = "Started"
    /\ query \in MainQueries
    /\ keywords = <<>>
    /\ token \in Tokens
    /\ upstream \in [Sources -> UpstreamModes]
    /\ token = <<>> => upstream[TUSHARE] = "ok"
    /\ adapter = [s \in Sources |-> IdleAdapter]
    /\ settleOrder = <<>>
    /\ news = <<>>
    /\ uniqueNews = <<>>
    /\ result = [kind |-> "pending"]
    /\ FnIdle

\* Lines 239-253: parse the query, call both adapters (each runs to its first
\* await; without a token searchTushareNews returns [] at once), create the
\* accumulator and await Promise.allSettled
Start ==
    /\ pc = "Started"
    /\ pc' = "Fetching"
    /\ keywords' = ParseQuery(query)
    /\ adapter' = [s \in Sources |->
                     IF s = TUSHARE /\ token = <<>>
                     THEN Settle(IdleAdapter, [failed |-> FALSE, value |-> <<>>])
                     ELSE Fetching]
    /\ settleOrder' = IF token = <<>> THEN <<TUSHARE>> ELSE <<>>
    /\ news' = <<>>
    /\ UNCHANGED <<query, token, upstream, uniqueNews, result>>
    /\ UNCHANGED fnVars

SettleWith(s, outcome) ==
    /\ adapter' = [adapter EXCEPT ![s] = Settle(@, outcome)]
    /\ settleOrder' = Append(settleOrder, s)

\* fetch rejects with a network error: the catch block returns []
FetchFails(s) ==
    /\ adapter[s].st = "fetching"
    /\ upstream[s] = "netError"
    /\ SettleWith(s, Caught(<<>>))
    /\ UNCHANGED <<pc, query, keywords, token, upstream, news, uniqueNews, result>>
    /\ UNCHANGED fnVars

\* setTimeout(() => controller.abort(), ...): a fetch still pending rejects
\* with an AbortError and the catch block returns []; otherwise abort() has
\* no effect
TimerFires(s) ==
    /\ adapter[s].timer = "armed"
    /\ IF adapter[s].st = "fetching"
       THEN /\ adapter' = [adapter EXCEPT
                             ![s] = [Settle(@, Caught(<<>>)) EXCEPT !.timer = "fired"]]
            /\ settleOrder' = Append(settleOrder, s)
       ELSE /\ adapter' = [adapter EXCEPT ![s].timer = "fired"]
            /\ UNCHANGED settleOrder
    /\ UNCHANGED <<pc, query, keywords, token, upstream, news, uniqueNews, result>>
    /\ UNCHANGED fnVars

\* fetch resolves with the response headers: clearTimeout(timeoutId), then
\* throw on !response.ok, else start reading the body
HeadersArrive(s) ==
    /\ adapter[s].st = "fetching"
    /\ upstream[s] \in {"httpError", "ok", "stallBody", "bodyError"}
    /\ IF upstream[s] = "httpError"
       THEN /\ adapter' = [adapter EXCEPT
                             ![s] = [Settle(@, Caught(<<>>)) EXCEPT !.timer = "cleared"]]
            /\ settleOrder' = Append(settleOrder, s)
       ELSE /\ adapter' = [adapter EXCEPT ![s].st = "reading", ![s].timer = "cleared"]
            /\ UNCHANGED settleOrder
    /\ UNCHANGED <<pc, query, keywords, token, upstream, news, uniqueNews, result>>
    /\ UNCHANGED fnVars

\* await response.text() resolves: parseBaiduNews(html, searchQuery)
BaiduBodyArrives ==
    /\ adapter[BAIDU].st = "reading"
    /\ upstream[BAIDU] = "ok"
    /\ \E blocks \in BaiduBodies : SettleWith(BAIDU, BaiduFromHtml(blocks, keywords))
    /\ UNCHANGED <<pc, query, keywords, token, upstream, news, uniqueNews, result>>
    /\ UNCHANGED fnVars

\* await resp.json() resolves: lines 185-222
TushareBodyArrives ==
    /\ adapter[TUSHARE].st = "reading"
    /\ upstream[TUSHARE] = "ok"
    /\ \E data \in TushareBodies : SettleWith(TUSHARE, TushareFromData(data, keywords))
    /\ UNCHANGED <<pc, query, keywords, token, upstream, news, uniqueNews, result>>
    /\ UNCHANGED fnVars

\* the body read rejects: the catch block returns []
BodyFails(s) ==
    /\ adapter[s].st = "reading"
    /\ upstream[s] = "bodyError"
    /\ SettleWith(s, Caught(<<>>))
    /\ UNCHANGED <<pc, query, keywords, token, upstream, news, uniqueNews, result>>
    /\ UNCHANGED fnVars

\* Faulty variant of AllSettled: the join waits for the first adapter only, as
\* Promise.race or Promise.any would
AnySettled == \E s \in Sources : adapter[s].status # "pending"

AllSettled == \A s \in Sources : adapter[s].status # "pending"

\* Promise.allSettled resolves once every promise has settled
Join ==
    /\ pc = "Fetching"
    /\ AllSettled
    /\ pc' = "Merging"
    /\ UNCHANGED <<query, keywords, token, upstream, adapter, settleOrder,
                   news, uniqueNews, result>>
    /\ UNCHANGED fnVars

\* Faulty variant of MergedNews: one failed adapter discards every result, as
\* Promise.all would
MergedNewsAllOrNothing ==
    IF \E i \in 1..2 : adapter[i].failed THEN <<>>
    ELSE Flatten([i \in 1..2 |-> adapter[i].value])

\* Faulty variant of MergedNews: the results are pushed in the order of completion
MergedNewsCompletionOrder ==
    Flatten([k \in 1..Len(settleOrder) |-> adapter[settleOrder[k]].value])

\* results.forEach((result, index) => ...): results is in the order of
\* searchPromises; a fulfilled result is pushed, a rejected one is logged
MergedNews ==
    Flatten([i \in 1..2 |->
               IF adapter[i].status = "fulfilled" THEN adapter[i].value ELSE <<>>])

Merge ==
    /\ pc = "Merging"
    /\ news' = news \o MergedNews
    /\ pc' = "Deduplicating"
    /\ UNCHANGED <<query, keywords, token, upstream, adapter, settleOrder,
                   uniqueNews, result>>
    /\ UNCHANGED fnVars

\* const uniqueNews = removeDuplicates(news)
Dedup ==
    /\ pc = "Deduplicating"
    /\ uniqueNews' = removeDuplicates(news)
    /\ pc' = "Truncating"
    /\ UNCHANGED <<query, keywords, token, upstream, adapter, settleOrder,
                   news, result>>
    /\ UNCHANGED fnVars

\* return uniqueNews.slice(0, 20)
Truncate ==
    /\ pc = "Truncating"
    /\ result' = [kind |-> "value", value |-> Slice(uniqueNews, MAX_RESULTS)]
    /\ pc' = "Completed"
    /\ UNCHANGED <<query, keywords, token, upstream, adapter, settleOrder,
                   news, uniqueNews>>
    /\ UNCHANGED fnVars

Next ==
    \/ Start
    \/ \E s \in Sources : FetchFails(s)
    \/ \E s \in Sources : TimerFires(s)
    \/ \E s \in Sources : HeadersArrive(s)
    \/ BaiduBodyArrives
    \/ TushareBodyArrives
    \/ \E s \in Sources : BodyFails(s)
    \/ Join
    \/ Merge
    \/ Dedup
    \/ Truncate

Spec == Init /\ [][Next]_vars

\* What the code's scheduling guarantees: the event loop runs the code that
\* is ready to run (the synchronous start, the continuation of the await,
\* the steps after it) and an armed timer fires. Nothing obliges an
\* upstream server to answer, to fail or to complete a body.
FairSpec ==
    /\ Spec
    /\ WF_vars(Start)
    /\ \A s \in Sources : WF_vars(TimerFires(s))
    /\ WF_vars(Join)
    /\ WF_vars(Merge)
    /\ WF_vars(Dedup)
    /\ WF_vars(Truncate)

----------------------------------------------------------------------------
(* Function-level specifications: the arguments are drawn in the initial   *)
(* state and the one action applies the function.                          *)

MainIdle ==
    /\ pc = "Idle"
    /\ query = <<>>
    /\ keywords = <<>>
    /\ token = <<>>
    /\ upstream = [s \in Sources |-> "ok"]
    /\ adapter = [s \in Sources |-> IdleAdapter]
    /\ settleOrder = <<>>
    /\ news = <<>>
    /\ uniqueNews = <<>>
    /\ result = [kind |-> "pending"]

Texts == SeqsUpTo({"a", "A", "b"}, MaxTextLen)

Queries == SeqsUpTo({"a", "A", "b", " ", "\t"}, MaxQueryLen)

InitFilter ==
    /\ MainIdle
    /\ fn = "containsKeywords"
    /\ args \in [content : Texts, query : Queries]
    /\ ret = NoCall

\* The filter as the adapters call it (lines 239, 118 and 80; 201 and 208):
\* the query is parsed, the keywords are joined into searchQuery and
\* containsKeywords(content, searchQuery) is evaluated
FilterCall ==
    /\ fn = "containsKeywords"
    /\ ret = NoCall
    /\ ret' = [kind |-> "value",
               value |-> containsKeywords(args.content,
                                          join(ParseQuery(args.query), " "))]
    /\ UNCHANGED <<fn, args>>
    /\ UNCHANGED mainVars

SpecFilter == InitFilter /\ [][FilterCall]_vars

TestItem(title, source) == NewsItem(title, title, <<>>, source, <<>>, <<>>)

IdentityItems ==
    { TestItem(<<"X">>, <<"S", "1">>), TestItem(<<"X">>, <<"S", "2">>),
      TestItem(<<"A", "B">>, <<"C">>), TestItem(<<"A">>, <<"B", "C">>),
      TestItem(<<"A">>, <<"C">>) }

InitIdentity ==
    /\ MainIdle
    /\ fn = "removeDuplicates"
    /\ args \in [items : SeqsUpTo(IdentityItems, MaxIdentityItems)]
    /\ ret = NoCall

IdentityCall ==
    /\ fn = "removeDuplicates"
    /\ ret = NoCall
    /\ ret' = [kind |-> "value", value |-> removeDuplicates(args.items)]
    /\ UNCHANGED <<fn, args>>
    /\ UNCHANGED mainVars

SpecIdentity == InitIdentity /\ [][IdentityCall]_vars

ContentItems ==
    { NewsItem(t, c, <<>>, TUSHARE_SOURCE, <<>>, <<>>) :
        t \in {<<>>, <<"a", "b">>, <<"a", "b", "c">>}, c \in {<<>>, <<"c">>} }

\* Thresholds in hundredths, inside and outside [0, 1]
Thresholds == {-10, 0, 60, 80, 100, 150}

ThresholdArgs ==
    {[given |-> FALSE, v |-> 0]} \cup {[given |-> TRUE, v |-> t] : t \in Thresholds}

InitContent ==
    /\ MainIdle
    /\ fn = "deduplicateByContent"
    /\ args \in [items : SeqsUpTo(ContentItems, MaxContentItems),
                 threshold : ThresholdArgs]
    /\ ret = NoCall

ContentCall ==
    /\ fn = "deduplicateByContent"
    /\ ret = NoCall
    /\ ret' = deduplicateByContent(args.items, args.threshold)
    /\ UNCHANGED <<fn, args>>
    /\ UNCHANGED mainVars

SpecContent == InitContent /\ [][ContentCall]_vars

\* The two headlines of the documented worked example, one ASCII letter per
\* Chinese character (b t c j g u p 1 0 w m y, and s i d k for the four
\* characters only the second headline has); the digits are kept
Example1 == <<"b", "t", "c", "j", "g", "u", "p", "1", "0", "w", "m", "y">>
Example2 ==
    <<"b", "t", "c", "j", "g", "s", "i", "u", "p", "1", "0", "w", "m", "y", "d", "k">>

\* Texts for isSimilar: short texts with a space, texts that are only
\* markup or whitespace, mixed case, and the worked example
SimTexts ==
    SeqsUpTo({"a", "b", " "}, MaxSimLen)
    \cup { <<"<", "b", ">">>, <<"<", "b", ">", " ">>, <<"<", "b", ">", "a">>,
           <<"<", ">">>, <<"A", "b">>, <<"a", "b", "c">>, <<"a", " ", "b", "c">>,
           <<"b", "c", "d">>, Example1, Example2 }

InitSimilar ==
    /\ MainIdle
    /\ fn = "isSimilar"
    /\ args \in [a : SimTexts, b : SimTexts, threshold : Thresholds]
    /\ ret = NoCall

\* isSimilar(a, b, threshold): sim is its local constant, value what it returns
SimilarCall ==
    /\ fn = "isSimilar"
    /\ ret = NoCall
    /\ ret' = [kind |-> "value",
               sim |-> jaccard(toBigrams(args.a), toBigrams(args.b)),
               value |-> isSimilar(args.a, args.b, args.threshold)]
    /\ UNCHANGED <<fn, args>>
    /\ UNCHANGED mainVars

SpecSimilar == InitSimilar /\ [][SimilarCall]_vars

\* The keyword lists searchFinanceNews hands to its adapters
ExtractKeywords == {ParseQuery(q) : q \in MainQueries}

InitExtract ==
    /\ MainIdle
    /\ \/ /\ fn = "searchTushareNews"
          /\ args \in [data : TushareBodies, keywords : ExtractKeywords]
       \/ /\ fn = "searchBaiduNews"
          /\ args \in [blocks : BaiduBodies, keywords : ExtractKeywords]
    /\ ret = NoCall

\* searchTushareNews on an API payload that arrived (lines 185-227)
TushareExtractCall ==
    /\ fn = "searchTushareNews"
    /\ ret = NoCall
    /\ ret' = [kind |-> "value",
               value |-> TushareFromData(args.data, args.keywords).value]
    /\ UNCHANGED <<fn, args>>
    /\ UNCHANGED mainVars

\* searchBaiduNews on a result page that arrived (lines 142-144, 97-114)
BaiduExtractCall ==
    /\ fn = "searchBaiduNews"
    /\ ret = NoCall
    /\ ret' = [kind |-> "value",
               value |-> BaiduFromHtml(args.blocks, args.keywords).value]
    /\ UNCHANGED <<fn, args>>
    /\ UNCHANGED mainVars

SpecExtract == InitExtract /\ [][TushareExtractCall \/ BaiduExtractCall]_vars

----------------------------------------------------------------------------
(* Claims about searchFinanceNews *)

Value(s) == adapter[s].value

\* The indices of the first occurrence of each title+source key in items
FirstOccurrences(items) ==
    {i \in 1..Len(items) :
        \A j \in 1..(i - 1) :
            items[j].title \o items[j].source # items[i].title \o items[i].source}

\* C1: when some adapters fail and the others succeed, the call returns a
\* record sequence, not an error, and that sequence is built from exactly
\* the records of the adapters that succeeded, in configured order.
C1_PartialFailureIsolation ==
    pc = "Completed" =>
        LET succeeded == Flatten([i \in 1..2 |->
                                    IF adapter[i].failed THEN <<>> ELSE Value(i)])
            F == FirstOccurrences(succeeded)
        IN /\ result.kind = "value"
           /\ Range(result.value) \subseteq Range(succeeded)
           /\ Len(result.value) = Min(MAX_RESULTS, Cardinality(F))
           /\ \A i \in F :
                  Cardinality({j \in F : j <= i}) <= MAX_RESULTS =>
                      \E k \in 1..Len(result.value) : result.value[k] = succeeded[i]
           /\ Len(succeeded) = Cardinality(F) /\ Len(succeeded) <= MAX_RESULTS =>
                  result.value = succeeded

C1_Witness ==
    /\ pc = "Completed"
    /\ adapter[TUSHARE].failed
    /\ ~adapter[BAIDU].failed
    /\ Len(Value(BAIDU)) = 1
    /\ result = [kind |-> "value", value |-> Value(BAIDU)]

\* C2: the accumulator holds the adapters' records in the configured source
\* order (scrape adapter first, API adapter second) whichever adapter settled
\* first, each adapter's records in that adapter's own order, and the
\* returned sequence never lists an API record before a scrape record.
C2_SourceOrder ==
    /\ pc \in {"Deduplicating", "Truncating", "Completed"} =>
           news = Value(BAIDU) \o Value(TUSHARE)
    /\ pc = "Completed" =>
           \A i, j \in 1..Len(result.value) :
               (i < j /\ result.value[j].source = BAIDU_SOURCE)
                   => result.value[i].source = BAIDU_SOURCE

C2_Witness ==
    /\ pc = "Completed"
    /\ settleOrder = <<TUSHARE, BAIDU>>
    /\ Len(Value(BAIDU)) >= 2
    /\ Len(Value(TUSHARE)) >= 2
    /\ result.value = Value(BAIDU) \o Value(TUSHARE)

\* C3: the returned sequence is the first min(20, n) of the n first
\* occurrences (by title+source) of the concatenated adapter records, in
\* concatenation order, so no duplicate occupies a slot within the cap.
C3_TruncateAfterDedup ==
    pc = "Completed" =>
        LET all == Value(BAIDU) \o Value(TUSHARE)
            F == FirstOccurrences(all)
            rank(i) == Cardinality({j \in F : j <= i})
        IN /\ Len(result.value) = Min(MAX_RESULTS, Cardinality(F))
           /\ \A i \in F : rank(i) <= MAX_RESULTS => result.value[rank(i)] = all[i]

C3_Witness ==
    /\ pc = "Completed"
    /\ Len(news) = 26
    /\ Len(uniqueNews) = 25
    /\ Len(result.value) = 20
    /\ result.value = SubSeq(uniqueNews, 1, 20)

\* C7: every call completes: each adapter eventually settles and the call
\* eventually reaches Completed, whatever the upstream servers do.
C7_EventuallyCompleted == <>(AllSettled /\ pc = "Completed")

\* C8: when every adapter fails or yields no records the call returns the
\* empty sequence, and a completed call has returned a value, never raised.
C8_AllFailedReturnsEmpty ==
    pc = "Completed" =>
        /\ result.kind = "value"
        /\ (\A s \in Sources : adapter[s].failed \/ Value(s) = <<>>)
               => result.value = <<>>

C8_Witness ==
    /\ pc = "Completed"
    /\ \A s \in Sources : adapter[s].failed
    /\ upstream[BAIDU] = "noAnswer"
    /\ upstream[TUSHARE] = "ok"
    /\ result = [kind |-> "value", value |-> <<>>]

\* C10: every record an adapter returns to the call, and every record the
\* call returns, has a non-empty title.
C10_NoEmptyTitle ==
    /\ \A s \in Sources : \A i \in 1..Len(Value(s)) : Value(s)[i].title # <<>>
    /\ result.kind = "value" =>
           \A i \in 1..Len(result.value) : result.value[i].title # <<>>

\* The query terms that are substrings of a record's text (title and
\* summary, case-folded), in query order
MatchedTerms(r) ==
    SelectSeq(ParseQuery(query),
              LAMBDA k : includes(toLowerCase(r.title \o r.summary), toLowerCase(k)))

\* C11 as stated: the keywords field of every record an adapter returns is
\* exactly the query terms that occur in the record's text, in query order;
\* a term that does not occur in the record is not listed.
C11_OnlyMatchedKeywords ==
    \A s \in Sources : \A i \in 1..Len(Value(s)) :
        Value(s)[i].keywords = MatchedTerms(Value(s)[i])

\* C11: the keywords field of every record an adapter returns is the whole
\* sequence of parsed query terms, in query order: it lists every term that
\* occurs in the record's text, at least one of them does occur, and terms
\* that do not occur in the record are listed as well.
C11_KeywordsAreQueryTerms ==
    \A s \in Sources : \A i \in 1..Len(Value(s)) :
        /\ Value(s)[i].keywords = ParseQuery(query)
        /\ MatchedTerms(Value(s)[i]) # <<>>

C11_Witness ==
    /\ pc = "Completed"
    /\ query = <<"a", " ", "b">>
    /\ \E s \in Sources : \E i \in 1..Len(Value(s)) :
          /\ MatchedTerms(Value(s)[i]) = <<<<"a">>>>
          /\ Value(s)[i].keywords = <<<<"a">>, <<"b">>>>
          /\ Value(s)[i] \in Range(result.value)

\* The phases of a call, in order
PhaseOrder ==
    <<"Started", "Fetching", "Merging", "Deduplicating", "Truncating", "Completed">>

PhaseIndex(p) == CHOOSE i \in 1..Len(PhaseOrder) : PhaseOrder[i] = p

\* C20: a call moves through Started, Fetching, Merging, Deduplicating,
\* Truncating, Completed in this order, one phase at a time; an adapter is
\* invoked only in the step from Started to Fetching and, once settled, its
\* outcome never changes; the accumulator is empty while any adapter is
\* pending and changes only in the step out of Merging, with every adapter
\* settled; while any adapter is pending the call is still Started or
\* Fetching and has returned nothing.
C20_PhasesAndBarrier ==
    [][ /\ pc' # pc => PhaseIndex(pc') = PhaseIndex(pc) + 1
        /\ \A s \in Sources :
              /\ (adapter[s].st = "idle" /\ adapter'[s].st # "idle")
                     => (pc = "Started" /\ pc' = "Fetching")
              /\ adapter[s].st # "idle" => adapter'[s].st # "idle"
              /\ adapter[s].status # "pending" =>
                     /\ adapter'[s].status = adapter[s].status
                     /\ adapter'[s].value = adapter[s].value
        /\ (\E s \in Sources : adapter'[s].status = "pending") =>
              /\ news' = <<>>
              /\ pc' \in {"Started", "Fetching"}
              /\ result'.kind = "pending"
        /\ news' # news =>
              /\ \A s \in Sources : adapter[s].status # "pending"
              /\ pc = "Merging"
      ]_vars

C20_Witness ==
    /\ pc = "Deduplicating"
    /\ settleOrder = <<TUSHARE, BAIDU>>
    /\ \A s \in Sources : adapter[s].status = "fulfilled" /\ Value(s) # <<>>
    /\ news = Value(BAIDU) \o Value(TUSHARE)
    /\ result.kind = "pending"

----------------------------------------------------------------------------
(* Claims about the adapters' extraction *)

\* C12: a malformed item of an upstream batch (a row of the API payload that
\* is null instead of an array, a markup block without a title link) is
\* skipped on its own: the adapter returns what it returns for the batch
\* without the malformed items, so a batch with a well-formed matching item
\* never comes back empty because of a bad one.
C12_MalformedItemSkipped ==
    ret.kind = "value" =>
        /\ (fn = "searchTushareNews" /\ args.data.code = 0) =>
               LET wellFormed == SelectSeq(args.data.items, LAMBDA row : ~row.isNull)
               IN ret.value = TushareLoop(wellFormed, <<>>, args.keywords).results
        /\ fn = "searchBaiduNews" =>
               LET wellFormed == SelectSeq(args.blocks, LAMBDA b : b.titleMatch.some)
               IN ret.value = parseBaiduNews(wellFormed, join(args.keywords, " "))

----------------------------------------------------------------------------
(* Claims about the keyword filter *)

\* C4: an empty keyword sequence (an empty or all-spaces query) matches
\* every text.
C4_EmptyKeywordsMatchAll ==
    (ret.kind = "value" /\ ParseQuery(args.query) = <<>>) => ret.value = TRUE

\* C5: with a non-empty keyword sequence the filter is true iff at least one
\* keyword, case-folded and trimmed, is a substring of the case-folded text.
C5_OrOfTrimmedKeywords ==
    LET kws == ParseQuery(args.query)
    IN (ret.kind = "value" /\ kws # <<>>) =>
           (ret.value <=>
               \E i \in 1..Len(kws) :
                   includes(toLowerCase(args.content), trim(toLowerCase(kws[i]))))

----------------------------------------------------------------------------
(* Claims about the exact-duplicate reducer *)

\* C6: the output is the subsequence of the input that holds exactly the
\* first occurrence of each title+source key, in input order; two input
\* records with the same title and different sources have different keys
\* and both keys are present in the output.
C6_FirstOccurrencePerKey ==
    ret.kind = "value" =>
        LET in == args.items
            out == ret.value
            F == FirstOccurrences(in)
            rank(i) == Cardinality({j \in F : j <= i})
            keys(items) == {r.title \o r.source : r \in Range(items)}
        IN /\ Len(out) = Cardinality(F)
           /\ \A i \in F : out[rank(i)] = in[i]
           /\ \A i, j \in 1..Len(in) :
                  (in[i].title = in[j].title /\ in[i].source # in[j].source) =>
                      /\ in[i].title \o in[i].source # in[j].title \o in[j].source
                      /\ {in[i].title \o in[i].source,
                          in[j].title \o in[j].source} \subseteq keys(out)

C6_Witness ==
    /\ args.items = <<TestItem(<<"X">>, <<"S", "1">>), TestItem(<<"X">>, <<"S", "1">>),
                      TestItem(<<"X">>, <<"S", "2">>)>>
    /\ ret = [kind |-> "value",
              value |-> <<TestItem(<<"X">>, <<"S", "1">>),
                          TestItem(<<"X">>, <<"S", "2">>)>>]

\* C18: the exact-duplicate reducer is idempotent: applied to its own
\* output it returns that output unchanged.
C18_Idempotent ==
    (ret.kind = "value" /\ fn = "removeDuplicates") =>
        removeDuplicates(ret.value) = ret.value

C18_Witness ==
    /\ fn = "removeDuplicates"
    /\ args.items = <<TestItem(<<"A">>, <<"C">>), TestItem(<<"A">>, <<"C">>),
                      TestItem(<<"A">>, <<"C">>)>>
    /\ ret = [kind |-> "value", value |-> <<TestItem(<<"A">>, <<"C">>)>>]

\* The indices of the first occurrence of each (title, source) pair in items
FirstOfPair(items) ==
    {i \in 1..Len(items) :
        \A j \in 1..(i - 1) :
            ~(items[j].title = items[i].title /\ items[j].source = items[i].source)}

\* C21: a record is dropped only if an earlier record has both the same
\* title and the same source: the output is exactly the first occurrence of
\* each (title, source) pair, in input order, so two records whose pairs
\* differ are both kept even when title + source reads the same for both.
C21_DistinctPairsKept ==
    (ret.kind = "value" /\ fn = "removeDuplicates") =>
        LET in == args.items
            out == ret.value
            P == FirstOfPair(in)
            rank(i) == Cardinality({j \in P : j <= i})
        IN /\ Len(out) = Cardinality(P)
           /\ \A i \in P : out[rank(i)] = in[i]

----------------------------------------------------------------------------
(* Claims about the near-duplicate reducer *)

\* The threshold a call of deduplicateByContent runs with
EffectiveThreshold == IF args.threshold.given THEN args.threshold.v ELSE DEFAULT_THRESHOLD

\* The Jaccard coefficient of two records' comparison texts
Coefficient(x, y) ==
    jaccard(toBigrams(ComparisonText(x)), toBigrams(ComparisonText(y)))

\* The coefficient of x and y reaches the threshold t (in hundredths)
NearDuplicates(x, y, t) ==
    LET sim == Coefficient(x, y) IN sim.num * 100 >= t * sim.den

\* The subsequence of items at the indices in K, in input order
SubAt(items, K) ==
    [k \in 1..Cardinality(K) |->
        items[CHOOSE i \in K : Cardinality({j \in K : j <= i}) = k]]

\* C14: the output is an order-preserving subsequence of the input; no two
\* representatives in it are near-duplicates under the threshold; the first
\* input record is always kept; every discarded record is a near-duplicate
\* of a representative that precedes it in the input.
C14_RepresentativesCoverInput ==
    (ret.kind = "value" /\ fn = "deduplicateByContent") =>
        LET in == args.items
            out == ret.value
            t == EffectiveThreshold
        IN \E K \in SUBSET (1..Len(in)) :
               /\ out = SubAt(in, K)
               /\ \A i, j \in K : i # j => ~NearDuplicates(in[i], in[j], t)
               /\ in # <<>> => (1 \in K /\ out[1] = in[1])
               /\ \A i \in (1..Len(in)) \ K :
                      \E j \in K : j < i /\ NearDuplicates(in[i], in[j], t)

C14_Witness ==
    /\ fn = "deduplicateByContent"
    /\ args.threshold = [given |-> TRUE, v |-> 60]
    /\ args.items = <<NewsItem(<<"a", "b", "c">>, <<>>, <<>>, TUSHARE_SOURCE, <<>>, <<>>),
                      NewsItem(<<"a", "b">>, <<>>, <<>>, TUSHARE_SOURCE, <<>>, <<>>),
                      NewsItem(<<"a", "b", "c">>, <<"c">>, <<>>, TUSHARE_SOURCE, <<>>, <<>>)>>
    /\ ret.kind = "value"
    /\ ret.value = SubSeq(args.items, 1, 2)

\* C15: the output is never longer than the input, and has the input's
\* length when every pair of input records has a coefficient below the
\* threshold.
C15_LengthBound ==
    (ret.kind = "value" /\ fn = "deduplicateByContent") =>
        LET in == args.items
            t == EffectiveThreshold
        IN /\ Len(ret.value) <= Len(in)
           /\ (\A i, j \in 1..Len(in) : i < j => ~NearDuplicates(in[i], in[j], t))
                  => Len(ret.value) = Len(in)

C15_Witness ==
    /\ fn = "deduplicateByContent"
    /\ args.threshold = [given |-> TRUE, v |-> 100]
    /\ args.items = <<NewsItem(<<"a", "b">>, <<>>, <<>>, TUSHARE_SOURCE, <<>>, <<>>),
                      NewsItem(<<"a", "b", "c">>, <<>>, <<>>, TUSHARE_SOURCE, <<>>, <<>>),
                      NewsItem(<<"a", "b", "c">>, <<"c">>, <<>>, TUSHARE_SOURCE, <<>>, <<>>)>>
    /\ ret.kind = "value"
    /\ Len(ret.value) = 3


C16_EmptyTextBoundary ==
    (ret.kind = "value" /\ fn = "isSimilar") =>
        LET na == normalizeText(args.a)
            nb == normalizeText(args.b)
        IN /\ (na = <<>> /\ nb = <<>> /\ args.threshold <= 100) => ret.value = TRUE
           /\ (na # <<>> /\ nb = <<>> /\ args.threshold > 0) => ret.value = FALSE

C16_Witness ==
    /\ fn = "isSimilar"
    /\ args = [a |-> <<"<", "b", ">", " ">>, b |-> <<" ">>, threshold |-> 100]
    /\ ret.kind = "value"
    /\ ret.value = TRUE

\* C17: similarity is symmetric: isSimilar(a, b, t) and isSimilar(b, a, t)
\* give the same answer for all texts and thresholds.
C17_Symmetric ==
    (ret.kind = "value" /\ fn = "isSimilar") =>
        ret.value = isSimilar(args.b, args.a, args.threshold)

C17_Witness ==
    /\ fn = "isSimilar"
    /\ args = [a |-> Example2, b |-> Example1, threshold |-> 60]
    /\ ret.kind = "value"
    /\ ret.value = TRUE

\* C19: two texts that are similar at a threshold are similar at every
\* lower threshold.
C19_ThresholdMonotone ==
    (ret.kind = "value" /\ fn = "isSimilar" /\ ret.value = TRUE) =>
        \A t2 \in Thresholds :
            t2 <= args.threshold => isSimilar(args.a, args.b, t2)

C19_Witness ==
    /\ fn = "isSimilar"
    /\ args = [a |-> <<"a", "b", "c">>, b |-> <<"a", " ", "b", "c">>, threshold |-> 80]
    /\ ret.kind = "value"
    /\ ret.value = TRUE
    /\ ret.sim.num = ret.sim.den

\* C9: a call with a similarity threshold outside [0, 1] fails at call entry
\* with an error instead of being evaluated with the out-of-range value.
C9_InvalidThresholdFailsFast ==
    (ret # NoCall /\ args.threshold.given /\ args.threshold.v \notin 0..100)
        => ret.kind = "error"

====
